---- MODULE Spec2Model ----
(***************************************************************************)
(* Model of chempy/kinetics/rates.py: the rate-expression tree (_RateExpr  *)
(* and its variants MassAction, GeneralPow, Sum, Quotient) held in a heap  *)
(* of node objects and list objects, and the law_of_mass_action_rates      *)
(* generator.  Numbers are exact rationals <<num, den>>.                   *)
(***************************************************************************)
EXTENDS Integers, Sequences, FiniteSets, TLC

VARIABLES heap,      \* node objects, identity = position
          lists,     \* list objects (the args sequences), identity = position
          clsNargs,  \* the class attribute nargs of each variant
          nBuilt,    \* nodes the caller constructed directly
          op,        \* the last call and its outcome
          gen        \* the generator object of law_of_mass_action_rates

vars == <<heap, lists, clsNargs, nBuilt, op, gen>>

(***************************** bounds **************************************)
MaxNodes == 2      \* nodes the caller constructs
MaxArgs == 2       \* length of an argument list handed to a constructor
MaxParams == 2     \* length of a flat parameter vector
MaxRxns == 2       \* reactions of a reaction system

Classes == {"MassAction", "GeneralPow", "Sum", "Quotient"}
Keys == {"A", "B"}

(***************************** helpers *************************************)
Min(a, b) == IF a < b THEN a ELSE b
Abs(a) == IF a < 0 THEN -a ELSE a

RECURSIVE GCD(_, _)
GCD(a, b) == IF b = 0 THEN a ELSE GCD(b, a % b)

\* exact rational in lowest terms, positive denominator
Norm(n, d) ==
    LET g == GCD(Abs(n), Abs(d))
        s == IF d < 0 THEN -1 ELSE 1
    IN <<(s * n) \div g, (s * d) \div g>>

Num(k) == <<k, 1>>
RMul(a, b) == Norm(a[1] * b[1], a[2] * b[2])
RAdd(a, b) == Norm(a[1] * b[2] + b[1] * a[2], a[2] * b[2])
RDivide(a, b) == Norm(a[1] * b[2], a[2] * b[1])

RECURSIVE RPow(_, _)
RPow(a, k) == IF k = 0 THEN Num(1) ELSE RMul(a, RPow(a, k - 1))

RECURSIVE SumSeq(_)
SumSeq(s) == IF Len(s) = 0 THEN 0 ELSE s[1] + SumSeq(Tail(s))

\* Python's s[a:b] for 0 <= a, 0 <= b (indices are clamped to len(s))
Slice(s, a, b) ==
    LET lo == Min(a, Len(s))
        hi == Min(b, Len(s))
    IN IF hi <= lo THEN <<>> ELSE [k \in 1..(hi - lo) |-> s[lo + k]]

\* np.cumsum([0] + nscalars)
CumSum(ns) == [i \in 1..(Len(ns) + 1) |-> SumSeq(Slice(ns, 0, i - 1))]

SeqsUpTo(S, n) == UNION {[1..k -> S] : k \in 0..n}

(************************** values of the program **************************)
Leaf(v) == [t |-> "s", v |-> v]         \* an argument that is a scalar
Sub(id) == [t |-> "n", v |-> id]        \* an argument that is a _RateExpr
IsRateExpr(e) == e.t = "n"              \* isinstance(arg, _RateExpr)

NoParams == [none |-> TRUE, v |-> <<>>]      \* params is None
Params(s) == [none |-> FALSE, v |-> s]

NoHard == [none |-> TRUE, items |-> <<>>]    \* hard_args is None
Hard(items) == [none |-> FALSE, items |-> items]

Val(v) == [ok |-> TRUE, v |-> v, err |-> "none"]
Raise(e) == [ok |-> FALSE, v |-> Num(0), err |-> e]

\* nargs as written in the class bodies
ClassNargs == [c \in Classes |->
    CASE c = "MassAction" -> 1
      [] c = "GeneralPow" -> 1
      [] c = "Sum" -> -1
      [] c = "Quotient" -> 2]

(************************** the reaction system ****************************)
AsSubstanceIndex(rsys, key) == rsys.index[key]

(************************** _RateExpr.__init__ *****************************)
NScalarsOfArgFlat(h, e) == 1

\* one iteration of the loop of _get_nscalars
NScalarsOfArg(h, e) == IF IsRateExpr(e) THEN SumSeq(h[e.v].nscalars) ELSE 1

GetNScalars(h, args) == [i \in 1..Len(args) |-> NScalarsOfArg(h, args[i])]

InitNargsOnClass(cn, c, n) ==
    IF cn[c] = -1 THEN [cls |-> [cn EXCEPT ![c] = n], nargs |-> n]
    ELSE [cls |-> cn, nargs |-> cn[c]]

\* "if self.nargs == -1: self.nargs = len(args)": an instance attribute
InitNargs(cn, c, n) ==
    [cls |-> cn, nargs |-> IF cn[c] = -1 THEN n ELSE cn[c]]

Failed(st, e) == [ok |-> FALSE, st |-> st, id |-> 0, err |-> e]

\* c(args, hard_args, ref) where args is the list object L
Construct(st, c, L, hard, ref) ==
    LET args == st.lists[L]
        r == InitNargs(st.cls, c, Len(args))
        st1 == [st EXCEPT !.cls = r.cls]
    IN IF st.cls[c] = 0 THEN Failed(st, "ValueError")
       ELSE IF Len(args) # r.nargs THEN Failed(st1, "ValueError")
       ELSE LET ns == GetNScalars(st.heap, args)
                node == [cls |-> c, args |-> L, hard_args |-> hard,
                         ref |-> ref, nargs |-> r.nargs,
                         nscalars |-> ns, accum |-> CumSum(ns)]
            IN [ok |-> TRUE,
                st |-> [st1 EXCEPT !.heap = Append(@, node)],
                id |-> Len(st.heap) + 1, err |-> "none"]

(************************** _sub_params, get_params ************************)
\* i is the 0-based argument position
SubParams(node, i, params) ==
    IF params.none THEN NoParams
    ELSE Params(Slice(params.v, node.accum[i + 1], node.accum[i + 2]))

ArgsOf(h, l, id) == l[h[id].args]

RECURSIVE GetParams(_, _, _), GetParamsFrom(_, _, _, _)
GetParamsFrom(h, l, args, i) ==
    IF i > Len(args) THEN <<>>
    ELSE (IF IsRateExpr(args[i]) THEN GetParams(h, l, args[i].v)
          ELSE <<args[i].v>>) \o GetParamsFrom(h, l, args, i + 1)
GetParams(h, l, id) == GetParamsFrom(h, l, ArgsOf(h, l, id), 1)

(************************** rebuild ****************************************)
RECURSIVE Rebuild(_, _, _), RebuildFrom(_, _, _, _, _)

RebuildArgShared(st, e, sub) == [ok |-> TRUE, st |-> st, id |-> e.v, err |-> "none"]

\* args.append(arg.rebuild(self._sub_params(i, params))): the nested call
RebuildArg(st, e, sub) == Rebuild(st, e.v, sub)

RebuildNewNoRef(st, id, L) ==
    Construct(st, st.heap[id].cls, L, st.heap[id].hard_args, "None")

\* return self.__class__(args, self.hard_args, self.ref)
RebuildNew(st, id, L) ==
    Construct(st, st.heap[id].cls, L, st.heap[id].hard_args, st.heap[id].ref)

\* the loop over enumerate(self.args) from position i (1-based), filling list L
RebuildFrom(st, id, params, i, L) ==
    LET node == st.heap[id]
        args == st.lists[node.args]
    IN IF i > Len(args) THEN [ok |-> TRUE, st |-> st, id |-> 0, err |-> "none"]
       ELSE IF IsRateExpr(args[i])
       THEN LET r == RebuildArg(st, args[i], SubParams(node, i - 1, params))
            IN IF ~r.ok THEN r
               ELSE RebuildFrom([r.st EXCEPT !.lists[L] = Append(@, Sub(r.id))],
                                id, params, i + 1, L)
       ELSE IF params.none
       THEN RebuildFrom([st EXCEPT !.lists[L] = Append(@, Leaf(args[i].v))],
                        id, params, i + 1, L)
       ELSE IF Len(params.v) # 1 THEN Failed(st, "ValueError")
       ELSE RebuildFrom([st EXCEPT !.lists[L] = Append(@, Leaf(params.v[1]))],
                        id, params, i + 1, L)

Rebuild(st, id, params) ==
    LET L == Len(st.lists) + 1
        r == RebuildFrom([st EXCEPT !.lists = Append(@, <<>>)], id, params, 1, L)
    IN IF ~r.ok THEN r ELSE RebuildNew(r.st, id, L)

(************************** eval_arg and the variants' eval ****************)
\* reduce(mul, items) without an initial value; MulFrom folds from position i
RECURSIVE MulFrom(_, _, _)
MulFrom(acc, items, i) ==
    IF i > Len(items) THEN acc ELSE MulFrom(RMul(acc, items[i]), items, i + 1)
ReduceMul(items) ==
    IF Len(items) = 0 THEN Raise("TypeError") ELSE Val(MulFrom(items[1], items, 2))

\* reduce(add, items) without an initial value
RECURSIVE AddFrom(_, _, _)
AddFrom(acc, items, i) ==
    IF i > Len(items) THEN acc ELSE AddFrom(RAdd(acc, items[i]), items, i + 1)
ReduceAdd(items) ==
    IF Len(items) = 0 THEN Raise("TypeError") ELSE Val(AddFrom(items[1], items, 2))

\* [concs[rsys.as_substance_index(k)]**v for k, v in mapping.items()]
Powers(rsys, concs, items) ==
    [j \in 1..Len(items) |->
        RPow(Num(concs[AsSubstanceIndex(rsys, items[j][1]) + 1]), items[j][2])]

RECURSIVE Eval(_, _, _, _, _)

\* env = [rsys, ri, concs]; i is the 0-based argument position
EvalArg(h, l, id, env, i, params) ==
    LET arg == ArgsOf(h, l, id)[i + 1]
    IN IF IsRateExpr(arg)
       THEN Eval(h, l, arg.v, env, SubParams(h[id], i, params))
       ELSE IF params.none THEN Val(Num(arg.v))
       ELSE IF Len(params.v) # 1 THEN Raise("ValueError")
       ELSE Val(Num(params.v[1]))

\* a * b where a, b are outcomes, a evaluated first
Times(a, b) == IF ~a.ok THEN a ELSE IF ~b.ok THEN b ELSE Val(RMul(a.v, b.v))

MassActionEval(h, l, id, env, params) ==
    LET a == EvalArg(h, l, id, env, 0, params)
    IN IF ~a.ok THEN a
       ELSE Times(a, ReduceMul(Powers(env.rsys, env.concs,
                                         env.rsys.rxns[env.ri + 1].reac)))

GeneralPowEval(h, l, id, env, params) ==
    LET a == EvalArg(h, l, id, env, 0, params)
    IN IF ~a.ok THEN a
       ELSE IF h[id].hard_args.none THEN Raise("AttributeError")
       ELSE Times(a, ReduceMul(Powers(env.rsys, env.concs,
                                         h[id].hard_args.items)))

\* the list comprehension of Sum.eval from position idx (0-based)
RECURSIVE SumItems(_, _, _, _, _, _)
SumItems(h, l, id, env, params, idx) ==
    IF idx >= h[id].nargs THEN [ok |-> TRUE, items |-> <<>>, err |-> "none"]
    ELSE LET a == EvalArg(h, l, id, env, idx, params)
         IN IF ~a.ok THEN [ok |-> FALSE, items |-> <<>>, err |-> a.err]
            ELSE LET rest == SumItems(h, l, id, env, params, idx + 1)
                 IN IF ~rest.ok THEN rest
                    ELSE [rest EXCEPT !.items = <<a.v>> \o @]

SumEval(h, l, id, env, params) ==
    LET xs == SumItems(h, l, id, env, params, 0)
    IN IF ~xs.ok THEN Raise(xs.err) ELSE ReduceAdd(xs.items)

QuotientEval(h, l, id, env, params) ==
    LET a == EvalArg(h, l, id, env, 0, params)
        b == EvalArg(h, l, id, env, 1, params)
    IN IF ~a.ok THEN a
       ELSE IF ~b.ok THEN b
       ELSE IF b.v[1] = 0 THEN Raise("ZeroDivisionError")
       ELSE Val(RDivide(a.v, b.v))

Eval(h, l, id, env, params) ==
    CASE h[id].cls = "MassAction" -> MassActionEval(h, l, id, env, params)
      [] h[id].cls = "GeneralPow" -> GeneralPowEval(h, l, id, env, params)
      [] h[id].cls = "Sum" -> SumEval(h, l, id, env, params)
      [] h[id].cls = "Quotient" -> QuotientEval(h, l, id, env, params)

(************************** law_of_mass_action_rates ***********************)
NumK(v) == [k |-> "num", v |-> v]          \* a plain number
FuncK(v) == [k |-> "func", v |-> v]        \* a function: state -> v + state
SymbolK(v) == [k |-> "Symbol", v |-> v]    \* an instance of a class named Symbol

Callable(k) == k.k \in {"func", "Symbol"}
Call(k, state) == NumK(k.v + state)

EvalKNoCall(k, state) == k

\* _eval_k
EvalK(k, state) ==
    LET is_func == Callable(k) /\ ~(k.k = "Symbol")
    IN IF is_func THEN Call(k, state) ELSE k

\* rate * k for a rational rate: a number, or a symbolic product
RateTimes(rate, k) ==
    CASE k.k = "num" -> [ok |-> TRUE, k |-> "num", q |-> RMul(rate, Num(k.v)), s |-> 0]
      [] k.k = "Symbol" -> [ok |-> TRUE, k |-> "sym", q |-> rate, s |-> k.v]
      [] OTHER -> [ok |-> FALSE, k |-> "TypeError", q |-> Num(0), s |-> 0]

\* the inner loop: rate = 1; rate *= conc[s_idx]**coeff for each item from j
RECURSIVE RateLoop(_, _, _, _, _)
RateLoop(rate, conc, rsys, items, j) ==
    IF j > Len(items) THEN rate
    ELSE LET s_idx == AsSubstanceIndex(rsys, items[j][1])
         IN RateLoop(RMul(rate, RPow(Num(conc[s_idx + 1]), items[j][2])),
                     conc, rsys, items, j + 1)

\* one iteration of the outer loop, up to its yield; rxn_idx is 0-based
YieldOf(g, rxn_idx) ==
    LET rxn == g.rsys.rxns[rxn_idx + 1]
        rate == RateLoop(Num(1), g.conc, g.rsys, rxn.reac, 1)
    IN IF g.params.none THEN RateTimes(rate, EvalK(rxn.param, g.state))
       ELSE RateTimes(rate, EvalK(g.params.v[rxn_idx + 1], g.state))

(************************** inputs of the calls ****************************)
Index == [k \in Keys |-> IF k = "A" THEN 0 ELSE 1]

\* the reaction system the trees are evaluated against
TreeRsys == [rxns |-> << [reac |-> << <<"A", 1>> >>, param |-> NumK(2)],
                         [reac |-> << <<"A", 1>>, <<"B", 2>> >>, param |-> NumK(2)] >>,
             index |-> Index]
TreeConcs == <<3, 0>>
TreeEnv(ri) == [rsys |-> TreeRsys, ri |-> ri, concs |-> TreeConcs]
TreeEnvs == {TreeEnv(ri) : ri \in 0..(Len(TreeRsys.rxns) - 1)}

Annots(c) ==
    IF c = "GeneralPow"
    THEN {[hard |-> Hard(<< <<"A", 2>> >>), ref |-> "r"]}
    ELSE {[hard |-> NoHard, ref |-> "None"]}

\* argument lists: position i holds the scalar i or a node built before
ArgLists(n) ==
    UNION {{a \in [1..k -> {Leaf(v) : v \in 1..MaxArgs} \cup {Sub(id) : id \in 1..n}] :
               \A i \in 1..k : IsRateExpr(a[i]) \/ a[i].v = i} : k \in 0..MaxArgs}

\* flat parameter vectors: all entries distinct
PVec(n) == [i \in 1..n |-> 10 + i]
ParamChoices == {NoParams} \cup {Params(PVec(n)) : n \in 0..MaxParams}

Reactions == { [reac |-> << <<"A", 1>>, <<"B", 2>> >>, param |-> NumK(2)],
               [reac |-> <<>>, param |-> FuncK(3)],
               [reac |-> << <<"B", 1>> >>, param |-> SymbolK(1)] }
KVals == {NumK(5), FuncK(1), SymbolK(2)}
States == {0, 1}
GenConcs == <<3, 5>>
RsysChoices == {[rxns |-> r, index |-> Index] :
                   r \in UNION {[1..n -> Reactions] : n \in 1..MaxRxns}}
GenParamChoices(rsys) ==
    {NoParams} \cup {Params(p) : p \in [1..Len(rsys.rxns) -> KVals]}

NoGen == [live |-> FALSE, conc |-> <<>>, rsys |-> [rxns |-> <<>>, index |-> Index],
          params |-> NoParams, state |-> 0, idx |-> 0, out |-> <<>>,
          computed |-> 0, status |-> "none"]

NoOp == [kind |-> "idle", cls |-> "none", n |-> 0, id |-> 0, params |-> NoParams,
         ri |-> 0, ok |-> TRUE, err |-> "none", new |-> 0, val |-> Num(0),
         seq |-> <<>>]

St == [heap |-> heap, lists |-> lists, cls |-> clsNargs]

(************************** the caller's calls *****************************)
Init ==
    /\ heap = <<>>
    /\ lists = <<>>
    /\ clsNargs = ClassNargs
    /\ nBuilt = 0
    /\ op = NoOp
    /\ gen = NoGen

\* x = c(a, hard, ref) with a fresh list a
New(c, a, an) ==
    LET r == Construct([St EXCEPT !.lists = Append(@, a)], c, Len(lists) + 1,
                       an.hard, an.ref)
    IN /\ op.kind = "idle"
       /\ nBuilt < MaxNodes
       /\ IF r.ok
          THEN /\ heap' = r.st.heap
               /\ lists' = r.st.lists
               /\ nBuilt' = nBuilt + 1
          ELSE UNCHANGED <<heap, lists, nBuilt>>
       /\ clsNargs' = r.st.cls
       /\ op' = [NoOp EXCEPT !.kind = "new", !.cls = c, !.n = Len(a), !.ok = r.ok,
                             !.err = r.err, !.new = r.id]
       /\ UNCHANGED gen

\* y = x.rebuild(params)
RebuildCall(id, params) ==
    LET r == Rebuild(St, id, params)
    IN /\ op.kind = "idle"
       /\ IF r.ok
          THEN /\ heap' = r.st.heap
               /\ lists' = r.st.lists
          ELSE UNCHANGED <<heap, lists>>
       /\ clsNargs' = r.st.cls
       /\ op' = [NoOp EXCEPT !.kind = "rebuild", !.id = id, !.params = params,
                             !.ok = r.ok, !.err = r.err, !.new = r.id]
       /\ UNCHANGED <<nBuilt, gen>>

\* v = x.eval(rsys, ri, concs, params)
EvalCall(id, env, params) ==
    LET out == Eval(heap, lists, id, env, params)
    IN /\ op.kind = "idle"
       /\ op' = [NoOp EXCEPT !.kind = "eval", !.id = id, !.params = params,
                             !.ri = env.ri, !.ok = out.ok, !.err = out.err,
                             !.val = out.v]
       /\ UNCHANGED <<heap, lists, clsNargs, nBuilt, gen>>

\* p = x.get_params()
GetParamsCall(id) ==
    /\ op.kind = "idle"
    /\ op' = [NoOp EXCEPT !.kind = "get_params", !.id = id,
                          !.seq = GetParams(heap, lists, id)]
    /\ UNCHANGED <<heap, lists, clsNargs, nBuilt, gen>>

\* g = law_of_mass_action_rates(conc, rsys, params, state): no body code runs
GenCall(conc, rsys, params, state) ==
    /\ op.kind = "idle"
    /\ ~gen.live
    /\ gen' = [NoGen EXCEPT !.live = TRUE, !.conc = conc, !.rsys = rsys,
                            !.params = params, !.state = state,
                            !.status = "suspended"]
    /\ op' = [NoOp EXCEPT !.kind = "gen"]
    /\ UNCHANGED <<heap, lists, clsNargs, nBuilt>>

\* next(g): run the body up to the next yield, or off its end
GenNext ==
    /\ op.kind = "idle"
    /\ gen.live
    /\ IF gen.status = "suspended" /\ gen.idx < Len(gen.rsys.rxns)
       THEN LET y == YieldOf(gen, gen.idx)
            IN IF y.ok
               THEN /\ gen' = [gen EXCEPT !.idx = @ + 1, !.out = Append(@, y),
                                          !.computed = @ + 1]
                    /\ op' = [NoOp EXCEPT !.kind = "next", !.ri = gen.idx]
               ELSE /\ gen' = [gen EXCEPT !.computed = @ + 1, !.status = "finished"]
                    /\ op' = [NoOp EXCEPT !.kind = "next", !.ri = gen.idx,
                                          !.ok = FALSE, !.err = y.k]
       ELSE /\ gen' = [gen EXCEPT !.status = "finished"]
            /\ op' = [NoOp EXCEPT !.kind = "next", !.ri = gen.idx, !.ok = FALSE,
                                  !.err = "StopIteration"]
    /\ UNCHANGED <<heap, lists, clsNargs, nBuilt>>

\* the caller has looked at the outcome; a tree that rebuild returned is released
Return ==
    /\ op.kind # "idle"
    /\ op' = NoOp
    /\ heap' = SubSeq(heap, 1, nBuilt)
    /\ lists' = SubSeq(lists, 1, nBuilt)
    /\ UNCHANGED <<clsNargs, nBuilt, gen>>

GenEnv(ri) == [rsys |-> gen.rsys, ri |-> ri, concs |-> gen.conc]
MAChoices == {NoParams, Params(<<5>>)}

\* The calls go to the node the caller built last: every node is that node in
\* the state in which it was built, so every tree receives every call.
NextTree ==
    \/ /\ op.kind = "idle" /\ nBuilt < MaxNodes
       /\ \E c \in Classes : \E a \in ArgLists(nBuilt) : \E an \in Annots(c) :
             New(c, a, an)
    \/ /\ op.kind = "idle" /\ nBuilt > 0
       /\ \E p \in ParamChoices : RebuildCall(nBuilt, p)
    \/ /\ op.kind = "idle" /\ nBuilt > 0
       /\ \E env \in TreeEnvs : \E p \in ParamChoices : EvalCall(nBuilt, env, p)
    \/ /\ op.kind = "idle" /\ nBuilt > 0
       /\ GetParamsCall(nBuilt)
    \/ Return

NextGen ==
    \/ /\ op.kind = "idle" /\ ~gen.live
       /\ \E rsys \in RsysChoices : \E p \in GenParamChoices(rsys) : \E s \in States :
             GenCall(GenConcs, rsys, p, s)
    \/ GenNext
    \/ /\ op.kind = "idle" /\ nBuilt = 0
       /\ \E k \in {5, 7} :
             New("MassAction", <<Leaf(k)>>, [hard |-> NoHard, ref |-> "None"])
    \/ /\ op.kind = "idle" /\ nBuilt = 1
       /\ \E ri \in 0..(Len(gen.rsys.rxns) - 1) : \E p \in MAChoices :
             EvalCall(1, GenEnv(ri), p)
    \/ Return

SpecTree == Init /\ [][NextTree]_vars
SpecGen == Init /\ [][NextGen]_vars

(************************** notions the properties use *********************)
\* the nodes of the tree rooted at id
RECURSIVE Reach(_, _, _)
Reach(h, l, id) ==
    {id} \cup UNION {Reach(h, l, ArgsOf(h, l, id)[i].v) :
                        i \in {j \in 1..Len(ArgsOf(h, l, id)) : IsRateExpr(ArgsOf(h, l, id)[j])}}

\* trees a and b have the same variant, hard_args and ref at every node
RECURSIVE SameShape(_, _, _, _)
SameShape(h, l, a, b) ==
    /\ h[a].cls = h[b].cls
    /\ h[a].hard_args = h[b].hard_args
    /\ h[a].ref = h[b].ref
    /\ h[a].nargs = h[b].nargs
    /\ Len(ArgsOf(h, l, a)) = Len(ArgsOf(h, l, b))
    /\ \A i \in 1..Len(ArgsOf(h, l, a)) :
          LET x == ArgsOf(h, l, a)[i]
              y == ArgsOf(h, l, b)[i]
          IN /\ IsRateExpr(x) = IsRateExpr(y)
             /\ IsRateExpr(x) => SameShape(h, l, x.v, y.v)

\* the sub-slice of the vector p that argument i (1-based) of node id owns
OwnSlice(h, id, i, p) == Slice(p, h[id].accum[i], h[id].accum[i + 1])

\* some scalar leaf of the tree id, given the vector p, owns a sub-slice whose
\* length is not 1
RECURSIVE HasBadLeaf(_, _, _, _)
HasBadLeaf(h, l, id, p) ==
    \E i \in 1..Len(ArgsOf(h, l, id)) :
        IF IsRateExpr(ArgsOf(h, l, id)[i])
        THEN HasBadLeaf(h, l, ArgsOf(h, l, id)[i].v, OwnSlice(h, id, i, p))
        ELSE Len(OwnSlice(h, id, i, p)) # 1

\* product over the items of a mapping of conc[index(key)]**coeff, empty = 1
RECURSIVE ProductOver(_, _)
ProductOver(conc, S) ==
    IF S = {} THEN 1
    ELSE LET x == CHOOSE x \in S : TRUE
         IN (conc[Index[x[1]] + 1] ^ x[2]) * ProductOver(conc, S \ {x})
ItemSet(items) == {items[j] : j \in 1..Len(items)}

\* resolve(value, state) of the specification
Resolve(k, state) == IF k.k = "func" THEN NumK(k.v + state) ELSE k

\* the rate the generator is to yield for reaction i (1-based)
ExpectedRate(g, i) ==
    LET rxn == g.rsys.rxns[i]
        prod == ProductOver(g.conc, ItemSet(rxn.reac))
        k == Resolve(IF g.params.none THEN rxn.param ELSE g.params.v[i], g.state)
    IN IF k.k = "num"
       THEN [ok |-> TRUE, k |-> "num", q |-> Num(prod * k.v), s |-> 0]
       ELSE [ok |-> TRUE, k |-> "sym", q |-> Num(prod), s |-> k.v]

RECURSIVE AddAll(_, _)
AddAll(items, i) == IF i > Len(items) THEN Num(0) ELSE RAdd(items[i].v, AddAll(items, i + 1))

(************************** properties *************************************)
\* C1: for every tree T and every flat vector P whose length is T's scalar
\* count, T.rebuild(P) returns a tree and T.rebuild(P).get_params() = P.
C1_RoundTrip ==
    (/\ op.kind = "rebuild"
     /\ ~op.params.none
     /\ Len(op.params.v) = Len(GetParams(heap, lists, op.id)))
    => /\ op.ok
       /\ GetParams(heap, lists, op.new) = op.params.v

\* C2: when a node is evaluated with no override or with an override vector of
\* its scalar count, eval_arg hands a nested argument exactly its own sub-slice,
\* and a scalar leaf evaluates to the single element of its own sub-slice (the
\* stored leaf when there is no override).
C2_SliceRouting ==
    (/\ op.kind = "eval"
     /\ op.params.none \/ Len(op.params.v) = Len(GetParams(heap, lists, op.id)))
    =>
        \A i \in 1..heap[op.id].nargs :
            LET arg == ArgsOf(heap, lists, op.id)[i]
                own == OwnSlice(heap, op.id, i, op.params.v)
                got == EvalArg(heap, lists, op.id, TreeEnv(op.ri), i - 1, op.params)
            IN IF IsRateExpr(arg)
               THEN got = Eval(heap, lists, arg.v, TreeEnv(op.ri),
                               IF op.params.none THEN NoParams ELSE Params(own))
               ELSE IF op.params.none THEN got = Val(Num(arg.v))
               ELSE IF Len(own) = 1 THEN got = Val(Num(own[1]))
               ELSE got = Raise("ValueError")

\* C3: when some scalar leaf's own sub-slice of the override vector does not
\* have exactly one element, rebuild fails with ValueError and returns no tree,
\* and eval with that vector fails with the same error.
C3_LengthError ==
    (/\ op.kind = "rebuild"
     /\ ~op.params.none
     /\ HasBadLeaf(heap, lists, op.id, op.params.v))
    => /\ ~op.ok
       /\ op.err = "ValueError"
       /\ \A env \in TreeEnvs :
             Eval(heap, lists, op.id, env, op.params) = Raise("ValueError")

\* C4: Sum.eval returns the sum of eval_arg(i) over all its arguments: 0 for no
\* argument, eval_arg(0) for one.
C4_SumEval ==
    (op.kind = "eval" /\ heap[op.id].cls = "Sum")
    => LET items == [i \in 1..heap[op.id].nargs |->
                        EvalArg(heap, lists, op.id, TreeEnv(op.ri), i - 1, op.params)]
       IN (\A i \in 1..Len(items) : items[i].ok)
          => /\ op.ok
             /\ op.val = AddAll(items, 1)

\* C5: T.rebuild(None) succeeds, has the same variant, hard_args and ref at
\* every node and the same get_params() as T, and evaluates to the same outcome
\* as T for every reaction index.
C5_NoopRebuild ==
    (op.kind = "rebuild" /\ op.params.none)
    => /\ op.ok
       /\ SameShape(heap, lists, op.id, op.new)
       /\ GetParams(heap, lists, op.new) = GetParams(heap, lists, op.id)
       /\ \A env \in TreeEnvs :
             Eval(heap, lists, op.new, env, NoParams)
                = Eval(heap, lists, op.id, env, NoParams)

C5_Witness ==
    /\ op.kind = "rebuild" /\ op.params.none /\ op.ok
    /\ heap[op.id].cls = "Quotient"
    /\ \E i \in 1..2 : /\ IsRateExpr(ArgsOf(heap, lists, op.id)[i])
                       /\ heap[ArgsOf(heap, lists, op.id)[i].v].ref = "r"
    /\ \E i \in 1..2 : ~IsRateExpr(ArgsOf(heap, lists, op.id)[i])

\* C6: the generator yields one rate per reaction in reaction order, each the
\* product of conc[index(key)]**coeff times the resolved parameter (the override
\* params[i] when params is given), computes a rate only when it is pulled, and
\* yields nothing after the last reaction.
C6_Rates ==
    gen.live =>
        /\ Len(gen.out) <= Len(gen.rsys.rxns)
        /\ gen.idx = Len(gen.out)
        /\ gen.computed = Len(gen.out)
        /\ \A i \in 1..Len(gen.out) : gen.out[i] = ExpectedRate(gen, i)
        /\ gen.status = "finished" => Len(gen.out) = Len(gen.rsys.rxns)
        /\ op.kind = "next" =>
              /\ op.ok <=> op.ri < Len(gen.rsys.rxns)
              /\ ~op.ok => op.err = "StopIteration"

C6_Witness ==
    /\ gen.live /\ gen.status = "finished" /\ op.kind = "next"
    /\ Len(gen.out) = 2
    /\ ~gen.params.none
    /\ gen.params.v[1].k = "func" /\ gen.params.v[2].k = "Symbol"
    /\ gen.rsys.rxns[1].param.k = "num"
    /\ gen.rsys.rxns[1].reac # <<>>

\* C7: constructing a fixed-arity variant succeeds exactly when len(args) is its
\* arity and otherwise fails with ValueError leaving no node; constructing Sum
\* always succeeds with nargs = len(args); the class attributes stay as written,
\* so every instance, rebuilt ones included, has nargs = len(args).
C7_Arity ==
    [][/\ clsNargs' = ClassNargs
       /\ \A id \in 1..Len(heap') :
             heap'[id].nargs = Len(lists'[heap'[id].args])
       /\ op'.kind = "new" =>
             /\ IF ClassNargs[op'.cls] = -1
                THEN op'.ok /\ heap'[op'.new].nargs = op'.n
                ELSE op'.ok <=> op'.n = ClassNargs[op'.cls]
             /\ op'.ok => /\ Len(heap') = Len(heap) + 1
                          /\ op'.new = Len(heap')
                          /\ heap'[op'.new].cls = op'.cls
             /\ ~op'.ok => op'.err = "ValueError" /\ heap' = heap
             /\ \A id \in 1..Len(heap) : heap'[id] = heap[id]]_vars

C7_Witness ==
    /\ op.kind = "new" /\ op.ok /\ op.cls = "Sum" /\ op.n = 2
    /\ \E id \in 1..Len(heap) : id # op.new /\ heap[id].cls = "Sum" /\ heap[id].nargs = 0

\* C8: accum_nscalars has length nargs + 1, starts with 0, is non-decreasing,
\* each width is the number of scalars the argument contributes to
\* get_params(), and len(get_params()) = accum_nscalars[-1].
C8_ScalarCount ==
    \A id \in 1..Len(heap) :
        LET n == heap[id]
            args == ArgsOf(heap, lists, id)
        IN /\ Len(args) = n.nargs
           /\ Len(n.accum) = n.nargs + 1
           /\ n.accum[1] = 0
           /\ \A i \in 1..n.nargs :
                 /\ n.accum[i] <= n.accum[i + 1]
                 /\ n.accum[i + 1] - n.accum[i]
                       = IF IsRateExpr(args[i])
                         THEN Len(GetParams(heap, lists, args[i].v))
                         ELSE 1
           /\ Len(GetParams(heap, lists, id)) = n.accum[Len(n.accum)]

C8_Witness ==
    \E id \in 1..Len(heap) :
        /\ heap[id].nargs = 2
        /\ \E i \in 1..2 : /\ IsRateExpr(ArgsOf(heap, lists, id)[i])
                           /\ heap[ArgsOf(heap, lists, id)[i].v].nargs = 0
        /\ \E i \in 1..2 : ~IsRateExpr(ArgsOf(heap, lists, id)[i])

\* C9: a rebuild call, returning or failing, leaves every node and every args
\* list of the receiver as it was, and every node of a returned tree is a new
\* node with a new args list of its own.
C9_RebuildFrame ==
    [][op'.kind = "rebuild" =>
          /\ \A id \in 1..Len(heap) : heap'[id] = heap[id]
          /\ \A L \in 1..Len(lists) : lists'[L] = lists[L]
          /\ GetParams(heap', lists', op'.id) = GetParams(heap, lists, op'.id)
          /\ ~op'.ok => heap' = heap /\ lists' = lists
          /\ op'.ok =>
                \A n \in Reach(heap', lists', op'.new) :
                    /\ n > Len(heap)
                    /\ heap'[n].args > Len(lists)
                    /\ \A m \in Reach(heap', lists', op'.new) :
                          heap'[m].args = heap'[n].args => m = n]_vars

C9_Witness ==
    /\ op.kind = "rebuild" /\ op.ok /\ ~op.params.none
    /\ \E i \in 1..heap[op.id].nargs : IsRateExpr(ArgsOf(heap, lists, op.id)[i])
    /\ GetParams(heap, lists, op.new) # GetParams(heap, lists, op.id)

\* C10: for a plain scalar k, MassAction([k]).eval(rsys, ri, concs) and
\* MassAction([k0]).eval(rsys, ri, concs, [k]) return the ri-th rate that
\* law_of_mass_action_rates yields with params[ri] = k.
C10_Agree ==
    (/\ op.kind = "eval"
     /\ gen.live
     /\ ~gen.params.none
     /\ op.ri < Len(gen.out)
     /\ gen.params.v[op.ri + 1].k = "num"
     /\ IF op.params.none
        THEN ArgsOf(heap, lists, op.id)[1].v = gen.params.v[op.ri + 1].v
        ELSE op.params.v = <<gen.params.v[op.ri + 1].v>>)
    => /\ op.ok
       /\ op.val = gen.out[op.ri + 1].q
       /\ op.val = Num(gen.params.v[op.ri + 1].v
                       * ProductOver(gen.conc, ItemSet(gen.rsys.rxns[op.ri + 1].reac)))

====
